---------------------------- MODULE Spec2Model ----------------------------
(***************************************************************************)
(* A model of HttpServerLight (src/app/httpserver.py): the router          *)
(* (HttpRouter / HttpRouter.Route), the request reader                     *)
(* (HttpServer._read_request), the dispatcher (HttpServer._handle_request),*)
(* the connection worker (HttpServer._handle_connection) and the accept    *)
(* loop over a ThreadPoolExecutor (HttpServer.start).                      *)
(*                                                                         *)
(* Text.  A Python str / bytes value is a sequence of symbols.  A symbol   *)
(* is one character ("/", "a", " ", "\r", "\n", ":" ...) except for words  *)
(* that the code only ever compares or copies whole ("GET", "POST",        *)
(* "HTTP/1.1", "Content-Length", "Accept-Encoding", "gzip", "br"), which   *)
(* are kept as one symbol.  Every separator the code searches for          *)
(* ("\r\n\r\n", "\r\n", " ", ": ", "/", "?", "{", "}") is made of          *)
(* one-character symbols, so splitting and searching work on the model     *)
(* text as they do on the real text.                                       *)
(*                                                                         *)
(* None is << >> and a present value v is <<v>> (Some(v)).                 *)
(***************************************************************************)
EXTENDS Integers, Sequences, FiniteSets, TLC

None == << >>

Some(v) == <<v>>

IsSome(o) == Len(o) = 1

(***************************************************************************)
(* Python string primitives                                                *)
(***************************************************************************)

\* s[i:] for a 1-based index i (the text from position i to the end)
Drop(s, i) == SubSeq(s, i, Len(s))

\* s.startswith(sep) looked at from position i: sep occurs in s at position i
OccursAt(s, sep, i) ==
    /\ i >= 1
    /\ i + Len(sep) - 1 <= Len(s)
    /\ SubSeq(s, i, i + Len(sep) - 1) = sep

\* sep in s
Contains(s, sep) == \E i \in 1..Len(s) : OccursAt(s, sep, i)

\* s.find(sep) from position i on: the first position >= i where sep occurs, 0 if none
RECURSIVE FindFrom(_, _, _)
FindFrom(s, sep, i) ==
    IF i + Len(sep) - 1 > Len(s) THEN 0
    ELSE IF OccursAt(s, sep, i) THEN i
    ELSE FindFrom(s, sep, i + 1)

\* s.split(sep): every non-overlapping occurrence of sep, left to right, separates two parts
RECURSIVE Split(_, _)
Split(s, sep) ==
    LET k == FindFrom(s, sep, 1)
    IN  IF k = 0 THEN <<s>>
        ELSE <<SubSeq(s, 1, k - 1)>> \o Split(Drop(s, k + Len(sep)), sep)

\* s.rstrip(c)
RECURSIVE RStrip(_, _)
RStrip(s, c) ==
    IF Len(s) > 0 /\ s[Len(s)] = c THEN RStrip(SubSeq(s, 1, Len(s) - 1), c) ELSE s

\* the characters of one decimal digit, str(i) for 0 <= i <= 9
Digits == <<"0", "1", "2", "3", "4", "5", "6", "7", "8", "9">>

\* str(i) for a small natural i
RECURSIVE IntToStr(_)
IntToStr(i) ==
    IF i < 10 THEN <<Digits[i + 1]>> ELSE IntToStr(i \div 10) \o <<Digits[(i % 10) + 1]>>

IsDigit(c) == \E d \in 1..10 : Digits[d] = c

DigitValue(c) == (CHOOSE d \in 1..10 : Digits[d] = c) - 1

\* int(s) succeeds: s is a non-empty run of decimal digits
IsInt(s) == Len(s) > 0 /\ \A i \in 1..Len(s) : IsDigit(s[i])

\* int(s) for such an s
RECURSIVE StrToInt(_)
StrToInt(s) ==
    IF Len(s) = 0 THEN 0
    ELSE 10 * StrToInt(SubSeq(s, 1, Len(s) - 1)) + DigitValue(s[Len(s)])

(***************************************************************************)
(* Python dict, insertion-ordered: a sequence of <<key, value>> pairs      *)
(***************************************************************************)

DictHas(d, k) == \E i \in 1..Len(d) : d[i][1] = k

\* d[k] for a key that is present
DictGet(d, k) == d[CHOOSE i \in 1..Len(d) : d[i][1] = k][2]

\* d[k] = v: an existing key keeps its place and takes the new value
DictSet(d, k, v) ==
    IF DictHas(d, k)
    THEN [i \in 1..Len(d) |-> IF d[i][1] = k THEN <<k, v>> ELSE d[i]]
    ELSE Append(d, <<k, v>>)

\* {k: v for k, v in pairs}
RECURSIVE DictFromPairs(_)
DictFromPairs(pairs) ==
    IF Len(pairs) = 0 THEN << >>
    ELSE LET p == pairs[Len(pairs)]
         IN  DictSet(DictFromPairs(SubSeq(pairs, 1, Len(pairs) - 1)), p[1], p[2])

(***************************************************************************)
(* The regular expressions of Route.get_dynamic_segments                   *)
(*                                                                         *)
(* Word characters (\w) of the model alphabet, and the class [\w\.-].      *)
(* A compiled pattern is a sequence of tokens: a literal character, or a   *)
(* group  ( open cls{min,} close )  that captures what it matches.         *)
(* Route patterns of the model hold no regular-expression metacharacter    *)
(* other than "." outside their placeholders, so every other character of  *)
(* a pattern stands for itself, as it does in Python's re.                 *)
(***************************************************************************)

Letters ==
    {"a", "b", "c", "d", "e", "f", "g", "h", "i", "j", "k", "l", "m",
     "n", "o", "p", "q", "r", "s", "t", "u", "v", "w", "x", "y", "z"}

WordChars == Letters \cup {"_"} \cup {Digits[d] : d \in 1..10}

ClassChars == WordChars \cup {".", "-"}

Lit(c) == [t |-> "lit", c |-> c, open |-> << >>, cls |-> {}, min |-> 0, close |-> << >>]

\* ([\w\.-]+)
ValueGroup == [t |-> "grp", c |-> "", open |-> << >>, cls |-> ClassChars, min |-> 1, close |-> << >>]

\* ({\w*})
NameGroup == [t |-> "grp", c |-> "", open |-> <<"{">>, cls |-> WordChars, min |-> 0, close |-> <<"}">>]

\* the length of the run of characters of cls in s from position i on
RECURSIVE RunLen(_, _, _)
RunLen(s, i, cls) ==
    IF i <= Len(s) /\ s[i] \in cls THEN 1 + RunLen(s, i + 1, cls) ELSE 0

\* re.sub(r"\{(cls*)\}", group, s): each leftmost placeholder {name} becomes the group
RECURSIVE ReSubFrom(_, _, _, _)
ReSubFrom(s, i, cls, group) ==
    IF i > Len(s) THEN << >>
    ELSE IF s[i] = "{"
    THEN LET j == i + 1 + RunLen(s, i + 1, cls)
         IN  IF j <= Len(s) /\ s[j] = "}"
             THEN <<group>> \o ReSubFrom(s, j + 1, cls, group)
             ELSE <<Lit("{")>> \o ReSubFrom(s, i + 1, cls, group)
    ELSE <<Lit(s[i])>> \o ReSubFrom(s, i + 1, cls, group)

\* a literal pattern character against a text character ("." matches any character)
LitMatches(pc, c) == pc = "." \/ pc = c

\* re.match(toks, s) from token ti and position si: None, or Some(the groups captured),
\* found by Python's backtracking order (a group takes the longest run first)
RECURSIVE ReMatchFrom(_, _, _, _)
RECURSIVE ReTryRun(_, _, _, _, _)
ReMatchFrom(toks, ti, s, si) ==
    IF ti > Len(toks) THEN Some(<< >>)
    ELSE LET tk == toks[ti]
         IN  IF tk.t = "lit"
             THEN IF si <= Len(s) /\ LitMatches(tk.c, s[si])
                  THEN ReMatchFrom(toks, ti + 1, s, si + 1)
                  ELSE None
             ELSE IF OccursAt(s, tk.open, si) \/ Len(tk.open) = 0
                  THEN ReTryRun(toks, ti, s, si, RunLen(s, si + Len(tk.open), tk.cls))
                  ELSE None

\* the group toks[ti] at position si taking k characters of its class, then fewer
ReTryRun(toks, ti, s, si, k) ==
    LET tk == toks[ti]
        e  == si + Len(tk.open) + k
    IN  IF k < tk.min THEN None
        ELSE LET rest == IF OccursAt(s, tk.close, e) \/ Len(tk.close) = 0
                         THEN ReMatchFrom(toks, ti + 1, s, e + Len(tk.close))
                         ELSE None
             IN  IF IsSome(rest)
                 THEN Some(<<SubSeq(s, si, e + Len(tk.close) - 1)>> \o rest[1])
                 ELSE ReTryRun(toks, ti, s, si, k - 1)

\* re.match(pattern, s)
ReMatch(toks, s) == ReMatchFrom(toks, 1, s, 1)

(***************************************************************************)
(* HttpRouter.Route                                                        *)
(***************************************************************************)

\* route_part.startswith("{") and route_part.endswith("}")
IsPlaceholder(part) == Len(part) > 0 /\ part[1] = "{" /\ part[Len(part)] = "}"

\* Route._matches_with_dynamic_path: equal segment counts, and every segment of the
\* route is a placeholder or equals the path's segment
matches_with_dynamic_path(routePath, path) ==
    LET path_parts  == Split(path, <<"/">>)
        route_parts == Split(routePath, <<"/">>)
    IN  /\ Len(path_parts) = Len(route_parts)
        /\ \A i \in 1..Len(route_parts) :
              IsPlaceholder(route_parts[i]) \/ path_parts[i] = route_parts[i]

\* Route.matches_with: the query string is dropped; equal up to trailing "/", or a
\* dynamic match
matches_with(routePath, path) ==
    LET p == Split(path, <<"?">>)[1]
    IN  \/ RStrip(p, "/") = RStrip(routePath, "/")
        \/ matches_with_dynamic_path(routePath, p)

\* Route._validate_path from character i on with `depth` braces open: TRUE when the
\* braces balance (no ValueError)
RECURSIVE BalancedFrom(_, _, _)
BalancedFrom(path, i, depth) ==
    IF i > Len(path) THEN depth = 0
    ELSE IF path[i] = "{" THEN BalancedFrom(path, i + 1, depth + 1)
    ELSE IF path[i] = "}" THEN depth > 0 /\ BalancedFrom(path, i + 1, depth - 1)
    ELSE BalancedFrom(path, i + 1, depth)

validate_path(path) == BalancedFrom(path, 1, 0)

\* pn[1:-1] if pn[1:-1] else f"seg{i}", for the i-th captured name (i from 0)
SegmentName(pn, i) ==
    LET inner == SubSeq(pn, 2, Len(pn) - 1)
    IN  IF Len(inner) > 0 THEN inner ELSE <<"s", "e", "g">> \o IntToStr(i)

\* zip(names, values): as long as the shorter of the two
Zip(names, values) ==
    LET n == IF Len(names) < Len(values) THEN Len(names) ELSE Len(values)
    IN  [i \in 1..n |-> <<names[i], values[i]>>]

\* Route.get_dynamic_segments: None, or Some(dict of placeholder name -> value)
get_dynamic_segments(routePath, path) ==
    LET pattern   == ReSubFrom(routePath, 1, ClassChars, ValueGroup)
        url_match == ReMatch(pattern, path)
    IN  IF ~IsSome(url_match) THEN None
        ELSE LET segment_names_pattern == ReSubFrom(routePath, 1, WordChars, NameGroup)
                 segment_names_match   == ReMatch(segment_names_pattern, routePath)
             IN  IF ~IsSome(segment_names_match) THEN None
                 ELSE LET raw   == segment_names_match[1]
                          names == [i \in 1..Len(raw) |-> SegmentName(raw[i], i - 1)]
                      IN  Some(DictFromPairs(Zip(names, url_match[1])))

(***************************************************************************)
(* HttpRouter                                                              *)
(***************************************************************************)

\* the first route in registration order, from index i on, whose matches_with accepts
\* path; 0 if none
RECURSIVE FirstMatchFrom(_, _, _)
FirstMatchFrom(rs, path, i) ==
    IF i > Len(rs) THEN 0
    ELSE IF matches_with(rs[i].path, path) THEN i
    ELSE FirstMatchFrom(rs, path, i + 1)

\* add_route with the braces validated before the duplicate check
add_route_validate_first(rs, path, handler) ==
    IF ~validate_path(path)
    THEN [routes |-> rs, outcome |-> "invalid"]
    ELSE IF FirstMatchFrom(rs, path, 1) # 0
    THEN [routes |-> rs, outcome |-> "duplicate"]
    ELSE [routes |-> Append(rs, [path |-> path, handler |-> handler]), outcome |-> "added"]

\* HttpRouter.add_route: the duplicate check over the registered routes comes first,
\* then Route.__init__ validates the braces, then the route is appended
add_route(rs, path, handler) ==
    IF FirstMatchFrom(rs, path, 1) # 0
    THEN [routes |-> rs, outcome |-> "duplicate"]
    ELSE IF ~validate_path(path)
    THEN [routes |-> rs, outcome |-> "invalid"]
    ELSE [routes |-> Append(rs, [path |-> path, handler |-> handler]), outcome |-> "added"]

\* get_handler falling back to the first registered route when no route matches
get_handler_first_route(rs, path) ==
    LET i == IF FirstMatchFrom(rs, path, 1) = 0 /\ Len(rs) > 0 THEN 1
             ELSE FirstMatchFrom(rs, path, 1)
    IN  IF i = 0
        THEN [found |-> FALSE, idx |-> 0, handler |-> "not_found", kwargs |-> << >>,
              segments |-> None]
        ELSE LET dynamic_segments == get_dynamic_segments(rs[i].path, path)
             IN  [found    |-> TRUE,
                  idx      |-> i,
                  handler  |-> rs[i].handler,
                  kwargs   |-> IF IsSome(dynamic_segments) THEN dynamic_segments[1] ELSE << >>,
                  segments |-> dynamic_segments]

\* get_handler taking the last registered route that matches instead of the first
get_handler_last_match(rs, path) ==
    LET hits == {j \in 1..Len(rs) : matches_with(rs[j].path, path)}
        i    == IF hits = {} THEN 0 ELSE CHOOSE j \in hits : \A k \in hits : k <= j
    IN  IF i = 0
        THEN [found |-> FALSE, idx |-> 0, handler |-> "not_found", kwargs |-> << >>,
              segments |-> None]
        ELSE LET dynamic_segments == get_dynamic_segments(rs[i].path, path)
             IN  [found    |-> TRUE,
                  idx      |-> i,
                  handler  |-> rs[i].handler,
                  kwargs   |-> IF IsSome(dynamic_segments) THEN dynamic_segments[1] ELSE << >>,
                  segments |-> dynamic_segments]

\* HttpRouter.get_handler: what is returned for path.  found: a route matched (else
\* the 404 lambda); idx, handler: that route; kwargs: the dynamic segments the handler
\* will be called with, << >> when it is called with the request alone
get_handler(rs, path) ==
    LET i == FirstMatchFrom(rs, path, 1)
    IN  IF i = 0
        THEN [found |-> FALSE, idx |-> 0, handler |-> "not_found", kwargs |-> << >>,
              segments |-> None]
        ELSE LET dynamic_segments == get_dynamic_segments(rs[i].path, path)
             IN  [found    |-> TRUE,
                  idx      |-> i,
                  handler  |-> rs[i].handler,
                  kwargs   |-> IF IsSome(dynamic_segments) THEN dynamic_segments[1] ELSE << >>,
                  segments |-> dynamic_segments]

(***************************************************************************)
(* HttpResponse, HttpResponseBuilder                                       *)
(*                                                                         *)
(* A response is [status_code, headers, body]; headers is a dict from      *)
(* header name to value, both text.                                        *)
(***************************************************************************)

CRLF == <<"\r", "\n">>

HeaderEnd == <<"\r", "\n", "\r", "\n">>

STATUS_200_OK == 200

STATUS_400_BAD_REQUEST == 400

STATUS_404_NOT_FOUND == 404

STATUS_500_INTERNAL_SERVER_ERROR == 500

\* HttpResponse._STATUS_MESSAGES.get(status_code); str(None) for an unknown code
StatusMessage(code) ==
    IF code = STATUS_200_OK THEN "OK"
    ELSE IF code = STATUS_400_BAD_REQUEST THEN "Bad Request"
    ELSE IF code = STATUS_404_NOT_FOUND THEN "Not Found"
    ELSE IF code = STATUS_500_INTERNAL_SERVER_ERROR THEN "Internal Server Error"
    ELSE "None"

\* HttpResponseBuilder(status_code).build(): no header, empty body
BuildResponse(code) == [status_code |-> code, headers |-> << >>, body |-> << >>]

\* HttpResponseBuilder(status_code).set_body(body).build(): Content-Type and
\* Content-Length are set with the body
BuildResponseWithBody(code, body) ==
    [status_code |-> code,
     headers     |-> DictSet(DictSet(<< >>, <<"Content-Type">>, <<"text/plain">>),
                             <<"Content-Length">>, IntToStr(Len(body))),
     body        |-> body]

\* "".join(f"{k}: {v}\r\n" for k, v in headers.items())
RECURSIVE SerializeHeaders(_)
SerializeHeaders(headers) ==
    IF Len(headers) = 0 THEN << >>
    ELSE headers[1][1] \o <<":", " ">> \o headers[1][2] \o CRLF
         \o SerializeHeaders(Tail(headers))

\* HttpResponse.serialize
serialize(response) ==
    <<"HTTP/1.1", " ">> \o IntToStr(response.status_code)
        \o <<" ", StatusMessage(response.status_code)>> \o CRLF
        \o SerializeHeaders(response.headers) \o CRLF \o response.body

\* gzip.compress(body): the gzip member holding body, a header and a trailer (CRC and
\* size) around the deflated body; never the body itself, and of another length
GzipCompress(body) == <<"gzip-header">> \o body \o <<"gzip-trailer">>

\* gzip.decompress of such a member
GzipDecompress(data) == SubSeq(data, 2, Len(data) - 1)

\* e.strip() for the entries of Accept-Encoding: spaces at both ends are dropped
RECURSIVE Strip(_)
Strip(s) ==
    IF Len(s) > 0 /\ s[1] = " " THEN Strip(Tail(s))
    ELSE IF Len(s) > 0 /\ s[Len(s)] = " " THEN Strip(SubSeq(s, 1, Len(s) - 1))
    ELSE s

\* HttpResponse._PREFERRED_ENCODINGS
PREFERRED_ENCODINGS == << <<"gzip">> >>

\* HttpResponse._CONTENT_ENCODERS.keys()
CONTENT_ENCODERS == { <<"gzip">> }

\* HttpResponse._get_preferred_encoding: the first preferred encoding the header
\* lists, None if it lists none
get_preferred_encoding(accepted_encoding_header) ==
    LET parts == Split(accepted_encoding_header, <<",">>)
        accepted_encodings == {Strip(parts[i]) : i \in 1..Len(parts)}
        hits == {i \in 1..Len(PREFERRED_ENCODINGS) : PREFERRED_ENCODINGS[i] \in accepted_encodings}
    IN  IF hits = {} THEN None
        ELSE Some(PREFERRED_ENCODINGS[CHOOSE i \in hits : \A j \in hits : i <= j])

\* _compress leaving the Content-Length of the uncompressed body in place
compress_KeepLength(response, content_encoding) ==
    IF DictHas(response.headers, <<"Content-Encoding">>) THEN response
    ELSE IF content_encoding \notin CONTENT_ENCODERS THEN response
    ELSE [status_code |-> response.status_code,
          headers     |-> DictSet(response.headers, <<"Content-Encoding">>, content_encoding),
          body        |-> GzipCompress(response.body)]

\* _compress without the test for a Content-Encoding the response already declares
compress_Override(response, content_encoding) ==
    IF content_encoding \notin CONTENT_ENCODERS THEN response
    ELSE LET compressed_body == GzipCompress(response.body)
         IN  [status_code |-> response.status_code,
              headers     |-> DictSet(DictSet(response.headers,
                                              <<"Content-Encoding">>, content_encoding),
                                      <<"Content-Length">>, IntToStr(Len(compressed_body))),
              body        |-> compressed_body]

\* HttpResponse._compress: a response that already declares Content-Encoding, or an
\* encoding without encoder, is left alone; otherwise the body is replaced by the
\* compressed one and Content-Encoding and Content-Length are set
compress(response, content_encoding) ==
    IF DictHas(response.headers, <<"Content-Encoding">>) THEN response
    ELSE IF content_encoding \notin CONTENT_ENCODERS THEN response
    ELSE LET compressed_body == GzipCompress(response.body)
         IN  [status_code |-> response.status_code,
              headers     |-> DictSet(DictSet(response.headers,
                                              <<"Content-Encoding">>, content_encoding),
                                      <<"Content-Length">>, IntToStr(Len(compressed_body))),
              body        |-> compressed_body]

(***************************************************************************)
(* HttpServer._read_request                                                *)
(***************************************************************************)

\* One pass of the header loop (lines 291-297) on a non-empty chunk: a chunk holding
\* the terminator is split on it, its first part ends the header buffer and its
\* second part becomes the body buffer; any other chunk is added to the header buffer
HeaderChunk(header_buff, body_buff, chunk) ==
    IF Contains(chunk, HeaderEnd)
    THEN LET buff_parts == Split(chunk, HeaderEnd)
         IN  [header_buff |-> header_buff \o buff_parts[1] \o HeaderEnd,
              body_buff   |-> buff_parts[2],
              in_chunk    |-> TRUE]
    ELSE [header_buff |-> header_buff \o chunk, body_buff |-> body_buff, in_chunk |-> FALSE]

\* the header lines that hold ": ", each split on ": "
HeaderPairs(lines) ==
    LET RECURSIVE From(_)
        From(i) ==
            IF i > Len(lines) THEN << >>
            ELSE IF Contains(lines[i], <<":", " ">>)
                 THEN <<Split(lines[i], <<":", " ">>)>> \o From(i + 1)
                 ELSE From(i + 1)
    IN  From(2)

NoRequest == [kind |-> "none", method |-> << >>, path |-> << >>, headers |-> << >>]

ParseError == [kind |-> "raise", method |-> << >>, path |-> << >>, headers |-> << >>]

\* ParseHeaders without the test for an empty header buffer (line 299)
ParseHeaders_NoEmptyTest(header_buff) ==
    LET request_lines == Split(header_buff, CRLF)
        parts         == Split(request_lines[1], <<" ">>)
        pairs         == HeaderPairs(request_lines)
    IN  IF Len(parts) # 3 THEN ParseError
        ELSE IF \E i \in 1..Len(pairs) : Len(pairs[i]) # 2 THEN ParseError
        ELSE [kind |-> "ok", method |-> parts[1], path |-> parts[2],
              headers |-> DictFromPairs(pairs)]

\* ParseHeaders taking the method and the path from a request line of two parts or more
ParseHeaders_TwoParts(header_buff) ==
    IF Len(header_buff) = 0 THEN NoRequest
    ELSE LET request_lines == Split(header_buff, CRLF)
             parts         == Split(request_lines[1], <<" ">>)
             pairs         == HeaderPairs(request_lines)
         IN  IF Len(parts) < 2 THEN ParseError
             ELSE IF \E i \in 1..Len(pairs) : Len(pairs[i]) # 2 THEN ParseError
             ELSE [kind |-> "ok", method |-> parts[1], path |-> parts[2],
                   headers |-> DictFromPairs(pairs)]

\* Lines 299-309: None for an empty header buffer; else the request line is unpacked
\* into exactly three parts and each header line with ": " into exactly two (ValueError
\* otherwise)
ParseHeaders(header_buff) ==
    IF Len(header_buff) = 0 THEN NoRequest
    ELSE LET request_lines == Split(header_buff, CRLF)
             parts         == Split(request_lines[1], <<" ">>)
             pairs         == HeaderPairs(request_lines)
         IN  IF Len(parts) # 3 THEN ParseError
             ELSE IF \E i \in 1..Len(pairs) : Len(pairs[i]) # 2 THEN ParseError
             ELSE [kind    |-> "ok",
                   method  |-> parts[1],
                   path    |-> parts[2],
                   headers |-> DictFromPairs(pairs)]

\* headers.get(name): None when absent
HeaderGet(headers, name) == IF DictHas(headers, name) THEN Some(DictGet(headers, name)) ELSE None

\* line 317: method == "POST" and content_length (present and not the empty string)
ReadsBody(parsed) ==
    /\ parsed.method = <<"POST">>
    /\ DictHas(parsed.headers, <<"Content-Length">>)
    /\ Len(DictGet(parsed.headers, <<"Content-Length">>)) > 0

\* HttpRequest(method, path, headers, body_buff)
MakeRequest(parsed, body_buff) ==
    [method |-> parsed.method, path |-> parsed.path, headers |-> parsed.headers,
     body |-> body_buff]

(***************************************************************************)
(* Handlers (src/app/sample.py) and the dispatch of HttpServer._handle_request *)
(*                                                                         *)
(* A handler call ends in one outcome: it raised, or it returned a         *)
(* response.  What handle_files does depends on the file system, which the *)
(* model leaves open: every outcome the file system allows is possible.    *)
(***************************************************************************)

Returned(response) == [raised |-> FALSE, response |-> response]

Raised == [raised |-> TRUE, response |-> BuildResponse(0)]

\* handle_root(request)
handle_root(request, kwargs) ==
    IF Len(kwargs) > 0 THEN {Raised}
    ELSE {Returned(BuildResponseWithBody(STATUS_200_OK, <<"Hello, World!">>))}

\* handle_echo(request, **kwargs): KeyError without echo_val
handle_echo(request, kwargs) ==
    IF ~DictHas(kwargs, <<"e", "c", "h", "o", "_", "v", "a", "l">>) THEN {Raised}
    ELSE {Returned(BuildResponseWithBody(STATUS_200_OK,
              DictGet(kwargs, <<"e", "c", "h", "o", "_", "v", "a", "l">>) \o <<"!">>))}

\* handle_files(request, **kwargs)
handle_files(request, kwargs) ==
    IF ~DictHas(kwargs, <<"f", "i", "l", "e", "_", "n", "a", "m", "e">>)
    THEN {Returned(BuildResponseWithBody(STATUS_400_BAD_REQUEST, <<"Specify a file">>))}
    ELSE IF request.method \in {<<"GET">>, <<"DELETE">>}
    THEN {Returned(BuildResponseWithBody(STATUS_404_NOT_FOUND, <<"File not found">>)),
          Returned(BuildResponseWithBody(STATUS_200_OK, <<"file content">>)),
          Raised}
    ELSE IF request.method = <<"POST">>
    THEN {Returned(BuildResponseWithBody(STATUS_400_BAD_REQUEST, <<"File already exists!">>)),
          Raised}
    ELSE {Returned(BuildResponseWithBody(STATUS_400_BAD_REQUEST, <<"Method not allowed">>))}

\* the outcomes of calling the function registered under `handler`
HandlerOutcomes(handler, request, kwargs) ==
    IF handler = "handle_root" THEN handle_root(request, kwargs)
    ELSE IF handler = "handle_echo" THEN handle_echo(request, kwargs)
    ELSE handle_files(request, kwargs)

\* lines 339-345: the response is compressed when the request's Accept-Encoding lists
\* a preferred encoding
NegotiateEncoding(response, request) ==
    LET accept_encoding == HeaderGet(request.headers, <<"Accept-Encoding">>)
    IN  IF IsSome(accept_encoding) /\ Len(accept_encoding[1]) > 0
        THEN LET response_encoding == get_preferred_encoding(accept_encoding[1])
             IN  IF IsSome(response_encoding)
                 THEN compress(response, response_encoding[1])
                 ELSE response
        ELSE response

\* lines 336-349: the response of the try block for a handler outcome; an exception
\* anywhere in it gives the bare 500 response
DispatchResponse(request, outcome) ==
    IF outcome.raised THEN BuildResponse(STATUS_500_INTERNAL_SERVER_ERROR)
    ELSE NegotiateEncoding(outcome.response, request)

(***************************************************************************)
(* State                                                                   *)
(*                                                                         *)
(* routes    HttpRouter._routes: the registered routes, in registration    *)
(*           order, each [path, handler]                                   *)
(* lastOp    the last call made on the router (add_route or get_handler),  *)
(*           its arguments, the table it was made on, and what it returned *)
(* accepted  the connections accept() has returned so far, each with its   *)
(*           client, the server side of its socket and what was observed   *)
(*           on it                                                         *)
(* queue     the executor's work queue: submitted connections no worker    *)
(*           has taken yet                                                 *)
(* worker    the pool's threads: where each is in _handle_connection and   *)
(*           the locals of _read_request / _handle_request                 *)
(***************************************************************************)
VARIABLES routes, lastOp, accepted, queue, worker

vars == <<routes, lastOp, accepted, queue, worker>>

routerVars == <<routes, lastOp>>

serverVars == <<accepted, queue, worker>>

(***************************************************************************)
(* Router calls                                                            *)
(***************************************************************************)

\* the route table is explored up to this many registered routes
MaxRoutes == 2

\* Handler functions registered in the router specification
RouterHandlers == {"handle_root", "handle_echo"}

\* Patterns offered to add_route
RoutePatterns ==
    { <<"/">>,
      <<"/", "a">>,
      <<"/", "a", "/", "{", "x", "}">>,
      <<"/", "a", "/", "{", "y", "}">>,
      <<"/", "{", "x", "}", "/">>,
      <<"/", "{", "}", "/", "{", "}">>,
      <<"/", "a", "/", "{", "x", "-", "y", "}">>,
      <<"/", "a", "/", "{">>,
      <<"/", "b", "}", "{">> }

\* Paths offered to get_handler: every balanced pattern, with and without a trailing
\* "/", and request paths with a query string and with a character outside [\w\.-]
LookupPaths ==
    {p : p \in {q \in RoutePatterns : validate_path(q)}}
    \cup {p \o <<"/">> : p \in {q \in RoutePatterns : validate_path(q)}}
    \cup { <<"/", "a", "/", "b">>,
           <<"/", "a", "/", "b", "~", "c">>,
           <<"/", "a", "/", "b", "?", "x", "=", "1">>,
           <<"/", "b", "/", "a">>,
           <<"/", "c">> }

NoResult == [found |-> FALSE, idx |-> 0, handler |-> "", kwargs |-> << >>, segments |-> None]

NoOp ==
    [op |-> "none", path |-> << >>, handler |-> "", outcome |-> "",
     before |-> << >>, result |-> NoResult]

\* router.add_route(p, h)
AddRoute(p, h) ==
    /\ Len(routes) < MaxRoutes
    /\ LET r == add_route(routes, p, h)
       IN  /\ routes' = r.routes
           /\ lastOp' = [op |-> "add", path |-> p, handler |-> h, outcome |-> r.outcome,
                         before |-> routes, result |-> NoResult]
    /\ UNCHANGED serverVars

\* router.get_handler(p)
GetHandler(p) ==
    /\ lastOp' = [op |-> "get", path |-> p, handler |-> "", outcome |-> "",
                  before |-> routes, result |-> get_handler(routes, p)]
    /\ UNCHANGED <<routes, serverVars>>

RouterInit ==
    /\ routes = << >>
    /\ lastOp = NoOp
    /\ accepted = << >>
    /\ queue = << >>
    /\ worker = << >>

RouterNext ==
    \/ \E p \in RoutePatterns, h \in RouterHandlers : AddRoute(p, h)
    \/ \E p \in LookupPaths : GetHandler(p)

\* Application setup and lookups on the router alone
RouterSpec == RouterInit /\ [][RouterNext]_vars

(***************************************************************************)
(* Clients                                                                 *)
(*                                                                         *)
(* A client is the bytes it sends, whether it then closes its side of the  *)
(* connection (recv returns b"") or keeps it open waiting for the response *)
(* (recv blocks), and the places where TCP may end a piece: a recv returns *)
(* the bytes up to one of the client's cut points.  Pieces that end before *)
(* the header terminator are all added to header_buff by line 297 whatever *)
(* their size, so the finest cutting starts one byte before the terminator *)
(* and goes on, byte by byte, to the end of the stream.                    *)
(***************************************************************************)

ReqLine(method, path) == <<method, " ">> \o path \o <<" ", "HTTP/1.1">>

Hdr(name, value) == CRLF \o <<name, ":", " ">> \o value

PathRoot == <<"/">>

PathMissing == <<"/", "z", "z">>

PathEcho == <<"/", "e", "c", "h", "o", "/", "h", "i">>

PathFile == <<"/", "f", "i", "l", "e", "s", "/", "a">>

\* the whole stream arrives in one piece
Whole(stream) == {Len(stream)}

\* a piece may end one byte before the terminator and anywhere after that
Fine(stream) ==
    LET t == FindFrom(stream, HeaderEnd, 1)
    IN  {k \in 1..Len(stream) : k = Len(stream) \/ (t # 0 /\ k >= t - 1)}

\* the header block in one piece, the body in pieces of any size
HeadThenBody(stream) ==
    LET t == FindFrom(stream, HeaderEnd, 1)
    IN  {k \in 1..Len(stream) : k = Len(stream) \/ (t # 0 /\ k >= t + 3)}

Client(stream, closes, cuts) == [stream |-> stream, closes |-> closes, cuts |-> cuts]

GetRoot == ReqLine("GET", PathRoot) \o HeaderEnd

GetMissing == ReqLine("GET", PathMissing) \o Hdr("Host", <<"x">>) \o HeaderEnd

GetMissingGzip == ReqLine("GET", PathMissing) \o Hdr("Accept-Encoding", <<"gzip">>) \o HeaderEnd

GetEcho == ReqLine("GET", PathEcho) \o Hdr("Host", <<"x">>) \o HeaderEnd

\* a request line of two parts
Malformed == <<"GET", " ", "/">> \o HeaderEnd

PostHi == ReqLine("POST", PathFile) \o Hdr("Content-Length", <<"2">>) \o HeaderEnd \o <<"h", "i">>

\* a body that itself holds "\r\n\r\n"
PostCrlf ==
    ReqLine("POST", PathFile) \o Hdr("Content-Length", <<"5">>) \o HeaderEnd
        \o <<"a">> \o HeaderEnd

\* a GET followed by two more bytes
GetTrailing == ReqLine("GET", PathRoot) \o HeaderEnd \o <<"h", "i">>

\* a header whose value itself holds ": "
GetColon == ReqLine("GET", PathRoot) \o Hdr("Host", <<"a", ":", " ", "b">>) \o HeaderEnd

\* a header line without ": ", and one header name on two lines
GetNoiseDup ==
    ReqLine("GET", PathRoot) \o CRLF \o <<"n", "o">> \o Hdr("A", <<"1">>) \o Hdr("A", <<"2">>)
        \o HeaderEnd

\* closes at once, without sending a byte
ClientSilentClose == Client(<< >>, TRUE, {})

\* the clients of the pool specification
Clients ==
    { ClientSilentClose,
      Client(GetRoot, FALSE, Whole(GetRoot)),
      Client(Malformed, FALSE, Whole(Malformed)),
      Client(PostHi, TRUE, HeadThenBody(PostHi)) }

\* the clients of the connection specification: every kind of request, the terminator
\* and the body cut in every way
ConnClients ==
    { ClientSilentClose,
      Client(GetRoot, FALSE, Fine(GetRoot)),
      Client(GetMissing, FALSE, Whole(GetMissing)),
      Client(GetMissingGzip, FALSE, Whole(GetMissingGzip)),
      Client(GetEcho, FALSE, Whole(GetEcho)),
      Client(Malformed, FALSE, Whole(Malformed)),
      Client(PostHi, FALSE, Fine(PostHi)),
      Client(PostHi, TRUE, Fine(PostHi)),
      Client(PostCrlf, TRUE, Fine(PostCrlf)),
      Client(GetTrailing, FALSE, Fine(GetTrailing)),
      Client(GetColon, FALSE, Whole(GetColon)),
      Client(GetNoiseDup, FALSE, Whole(GetNoiseDup)) }

\* socket.recv(1024) returns at most this many bytes
RecvSize == 1024

\* the chunks a recv on connection record c may return now (none: it blocks, or the
\* peer has closed)
RecvChunks(c) ==
    {SubSeq(c.client.stream, c.pos + 1, k) :
        k \in {j \in c.client.cuts : j > c.pos /\ j - c.pos <= RecvSize}}

\* the stream's header terminator lies whole inside the chunk that a recv on c returns
TerminatorWithin(c, chunk) ==
    LET t == FindFrom(c.client.stream, HeaderEnd, 1)
    IN  t # 0 /\ c.pos < t /\ c.pos + Len(chunk) >= t + 3

\* recv returns b"": everything was received and the peer has closed its side
RecvEof(c) == c.pos = Len(c.client.stream) /\ c.client.closes

(***************************************************************************)
(* The server: HttpServer.start, _handle_connection, _handle_request       *)
(***************************************************************************)

\* HttpServer.num_threads of the modelled server: the pool's size
NumThreads == 2

\* connections accepted in one run of the pool specification
MaxConns == 2

\* main() of sample.py: the routes of the served application
SampleRoutes ==
    LET r1 == add_route(<< >>, <<"/">>, "handle_root").routes
        r2 == add_route(r1, <<"/", "e", "c", "h", "o", "/", "{", "e", "c", "h", "o", "_",
                              "v", "a", "l", "}">>, "handle_echo").routes
        r3 == add_route(r2, <<"/", "f", "i", "l", "e", "s", "/", "{", "f", "i", "l", "e",
                              "_", "n", "a", "m", "e", "}">>, "handle_files").routes
    IN  r3

IdleWorker ==
    [pc |-> "idle", conn |-> 0, header_buff |-> << >>, body_buff |-> << >>,
     parsed |-> NoRequest, content_length |-> 0, response |-> None]

NewConn(client) ==
    [client |-> client, pos |-> 0, open |-> TRUE, sent |-> << >>, calls |-> << >>,
     request |-> None, by |-> 0, done |-> FALSE, error |-> FALSE, no_request |-> FALSE,
     term_whole |-> FALSE, handler_raised |-> FALSE, send_failed |-> FALSE]

Init ==
    /\ routes = SampleRoutes
    /\ lastOp = NoOp
    /\ accepted = << >>
    /\ queue = << >>
    /\ worker = [w \in 1..NumThreads |-> IdleWorker]

\* lines 265-266: accept() returns a connection and it is submitted to the executor
Accept(client, max) ==
    /\ Len(accepted) < max
    /\ accepted' = Append(accepted, NewConn(client))
    /\ queue' = Append(queue, Len(accepted) + 1)
    /\ UNCHANGED <<routes, lastOp, worker>>

\* TakeWork leaving the connection in the executor's queue
TakeWork_NoDequeue(w) ==
    /\ worker[w].pc = "idle"
    /\ Len(queue) > 0
    /\ queue' = queue
    /\ worker' = [worker EXCEPT ![w] = [IdleWorker EXCEPT !.pc = "read_header",
                                                          !.conn = Head(queue)]]
    /\ accepted' = [accepted EXCEPT ![Head(queue)].by = w]
    /\ UNCHANGED <<routes, lastOp>>

\* an idle pool thread takes the oldest submitted connection and enters
\* _handle_connection, _handle_request, _read_request (lines 268-283)
TakeWork(w) ==
    /\ worker[w].pc = "idle"
    /\ Len(queue) > 0
    /\ queue' = Tail(queue)
    /\ worker' = [worker EXCEPT ![w] = [IdleWorker EXCEPT !.pc = "read_header",
                                                          !.conn = Head(queue)]]
    /\ accepted' = [accepted EXCEPT ![Head(queue)].by = w]
    /\ UNCHANGED <<routes, lastOp>>

\* lines 286-297: one recv of the header loop, and the loop test that follows it
RecvHeader(w) ==
    /\ worker[w].pc = "read_header"
    /\ LET c == worker[w].conn
       IN  \/ \E chunk \in RecvChunks(accepted[c]) :
                LET r == HeaderChunk(worker[w].header_buff, worker[w].body_buff, chunk)
                IN  /\ worker' = [worker EXCEPT
                           ![w].header_buff = r.header_buff,
                           ![w].body_buff = r.body_buff,
                           ![w].pc = IF Contains(r.header_buff, HeaderEnd)
                                     THEN "parse" ELSE "read_header"]
                    /\ accepted' = [accepted EXCEPT
                           ![c].pos = @ + Len(chunk),
                           ![c].term_whole = @ \/ TerminatorWithin(accepted[c], chunk)]
           \/ /\ RecvEof(accepted[c])
              /\ worker' = [worker EXCEPT ![w].pc = "parse"]
              /\ UNCHANGED accepted
    /\ UNCHANGED <<routes, lastOp, queue>>

\* the worker goes on to dispatch with the request it has read (line 326)
WithRequest(w, wk, body_buff) ==
    /\ worker' = [worker EXCEPT ![w] = [wk EXCEPT !.pc = "dispatch", !.body_buff = body_buff]]
    /\ accepted' = [accepted EXCEPT
           ![wk.conn].request = Some(MakeRequest(wk.parsed, body_buff))]

\* lines 299-320: the header block is parsed.  No request: on to line 354.  A
\* ValueError (request line, header line, int(content_length)) leaves _handle_request.
\* Otherwise the body loop is entered when there is a body to read.
Parse(w) ==
    /\ worker[w].pc = "parse"
    /\ LET c      == worker[w].conn
           parsed == ParseHeaders(worker[w].header_buff)
           wk     == [worker[w] EXCEPT !.parsed = parsed]
       IN  IF parsed.kind = "none"
           THEN /\ worker' = [worker EXCEPT ![w].pc = "close"]
                /\ accepted' = [accepted EXCEPT ![c].no_request = TRUE]
           ELSE IF parsed.kind = "raise"
           THEN /\ worker' = [worker EXCEPT ![w].pc = "except"]
                /\ UNCHANGED accepted
           ELSE IF ~ReadsBody(parsed)
           THEN WithRequest(w, wk, worker[w].body_buff)
           ELSE LET content_length == DictGet(parsed.headers, <<"Content-Length">>)
                IN  IF ~IsInt(content_length)
                    THEN /\ worker' = [worker EXCEPT ![w].pc = "except"]
                         /\ UNCHANGED accepted
                    ELSE IF Len(worker[w].body_buff) < StrToInt(content_length)
                    THEN /\ worker' = [worker EXCEPT ![w] =
                                [wk EXCEPT !.pc = "read_body",
                                           !.content_length = StrToInt(content_length)]]
                         /\ UNCHANGED accepted
                    ELSE WithRequest(w, wk, worker[w].body_buff)
    /\ UNCHANGED <<routes, lastOp, queue>>

\* lines 320-324: one recv of the body loop, and the loop test that follows it
RecvBody(w) ==
    /\ worker[w].pc = "read_body"
    /\ LET c == worker[w].conn
       IN  \/ \E chunk \in RecvChunks(accepted[c]) :
                LET body_buff == worker[w].body_buff \o chunk
                IN  IF Len(body_buff) < worker[w].content_length
                    THEN /\ worker' = [worker EXCEPT ![w].body_buff = body_buff]
                         /\ accepted' = [accepted EXCEPT ![c].pos = @ + Len(chunk)]
                    ELSE /\ worker' = [worker EXCEPT
                                ![w] = [worker[w] EXCEPT !.pc = "dispatch",
                                                         !.body_buff = body_buff]]
                         /\ accepted' = [accepted EXCEPT
                                ![c].pos = @ + Len(chunk),
                                ![c].request = Some(MakeRequest(worker[w].parsed, body_buff))]
           \/ /\ RecvEof(accepted[c])
              /\ WithRequest(w, worker[w], worker[w].body_buff)
    /\ UNCHANGED <<routes, lastOp, queue>>

\* Dispatch without the try/except of lines 336-349: a handler's exception leaves
\* _handle_request
Dispatch_NoTry(w) ==
    /\ worker[w].pc = "dispatch"
    /\ LET c       == worker[w].conn
           request == accepted[c].request[1]
           h       == get_handler(routes, request.path)
           outcomes == IF h.found THEN HandlerOutcomes(h.handler, request, h.kwargs)
                       ELSE {Returned(BuildResponse(STATUS_404_NOT_FOUND))}
       IN  \E o \in outcomes :
             /\ worker' = [worker EXCEPT
                    ![w].pc = IF o.raised THEN "except" ELSE "send",
                    ![w].response = Some(DispatchResponse(request, o))]
             /\ accepted' = [accepted EXCEPT
                    ![c].calls = IF h.found
                                 THEN Append(@, [handler |-> h.handler, kwargs |-> h.kwargs])
                                 ELSE @,
                    ![c].handler_raised = o.raised]
    /\ UNCHANGED <<routes, lastOp, queue>>

\* Dispatch going through the lookup and the handler call a second time before the
\* response is sent
Dispatch_Twice(w) ==
    /\ worker[w].pc = "dispatch"
    /\ LET c       == worker[w].conn
           request == accepted[c].request[1]
           h       == get_handler(routes, request.path)
           outcomes == IF h.found THEN HandlerOutcomes(h.handler, request, h.kwargs)
                       ELSE {Returned(BuildResponse(STATUS_404_NOT_FOUND))}
       IN  \E o \in outcomes :
             /\ worker' = [worker EXCEPT
                    ![w].pc = IF Len(accepted[c].calls) = 0 /\ h.found
                              THEN "dispatch" ELSE "send",
                    ![w].response = Some(DispatchResponse(request, o))]
             /\ accepted' = [accepted EXCEPT
                    ![c].calls = IF h.found
                                 THEN Append(@, [handler |-> h.handler, kwargs |-> h.kwargs])
                                 ELSE @,
                    ![c].handler_raised = o.raised]
    /\ UNCHANGED <<routes, lastOp, queue>>

\* lines 336-349: the handler is looked up and called, the response negotiated; an
\* exception gives the 500 response
Dispatch(w) ==
    /\ worker[w].pc = "dispatch"
    /\ LET c       == worker[w].conn
           request == accepted[c].request[1]
           h       == get_handler(routes, request.path)
           outcomes == IF h.found THEN HandlerOutcomes(h.handler, request, h.kwargs)
                       ELSE {Returned(BuildResponse(STATUS_404_NOT_FOUND))}
       IN  \E o \in outcomes :
             /\ worker' = [worker EXCEPT
                    ![w].pc = "send",
                    ![w].response = Some(DispatchResponse(request, o))]
             /\ accepted' = [accepted EXCEPT
                    ![c].calls = IF h.found
                                 THEN Append(@, [handler |-> h.handler, kwargs |-> h.kwargs])
                                 ELSE @,
                    ![c].handler_raised = o.raised]
    /\ UNCHANGED <<routes, lastOp, queue>>

\* line 352: sendall(response.serialize()) puts the response on the wire, or raises
\* because the peer is gone (a client that waits for the response is there to receive
\* it; one that has closed its side may be gone altogether)
Send(w) ==
    /\ worker[w].pc = "send"
    /\ LET c == worker[w].conn
       IN  \/ /\ accepted' = [accepted EXCEPT
                     ![c].sent = Append(@, serialize(worker[w].response[1]))]
              /\ worker' = [worker EXCEPT ![w].pc = "close"]
           \/ /\ accepted[c].client.closes
              /\ accepted' = [accepted EXCEPT ![c].send_failed = TRUE]
              /\ worker' = [worker EXCEPT ![w].pc = "except"]
    /\ UNCHANGED <<routes, lastOp, queue>>

\* line 356: client_socket.close() at the end of _handle_request
Close(w) ==
    /\ worker[w].pc = "close"
    /\ accepted' = [accepted EXCEPT ![worker[w].conn].open = FALSE]
    /\ worker' = [worker EXCEPT ![w].pc = "finally"]
    /\ UNCHANGED <<routes, lastOp, queue>>

\* lines 272-274: an exception that left _handle_request is caught and logged
Except(w) ==
    /\ worker[w].pc = "except"
    /\ accepted' = [accepted EXCEPT ![worker[w].conn].error = TRUE]
    /\ worker' = [worker EXCEPT ![w].pc = "finally"]
    /\ UNCHANGED <<routes, lastOp, queue>>

\* _handle_connection without the close of its finally block
Finally_NoClose(w) ==
    /\ worker[w].pc = "finally"
    /\ accepted' = [accepted EXCEPT ![worker[w].conn].done = TRUE]
    /\ worker' = [worker EXCEPT ![w] = IdleWorker]
    /\ UNCHANGED <<routes, lastOp, queue>>

\* lines 275-277: the socket is closed on every way out, and the thread is free again
Finally(w) ==
    /\ worker[w].pc = "finally"
    /\ accepted' = [accepted EXCEPT ![worker[w].conn].open = FALSE,
                                    ![worker[w].conn].done = TRUE]
    /\ worker' = [worker EXCEPT ![w] = IdleWorker]
    /\ UNCHANGED <<routes, lastOp, queue>>

WorkerStep(w) ==
    \/ TakeWork(w)
    \/ RecvHeader(w)
    \/ Parse(w)
    \/ RecvBody(w)
    \/ Dispatch(w)
    \/ Send(w)
    \/ Close(w)
    \/ Except(w)
    \/ Finally(w)

Next ==
    \/ \E client \in Clients : Accept(client, MaxConns)
    \/ \E w \in 1..NumThreads : WorkerStep(w)

\* The server with the sample application's routes: the pool of workers serving
\* several connections
Spec == Init /\ [][Next]_vars

ConnNext ==
    \/ \E client \in ConnClients : Accept(client, 1)
    \/ \E w \in 1..NumThreads : WorkerStep(w)

\* The same server serving one connection, for every kind of client
ConnSpec == Init /\ [][ConnNext]_vars

(***************************************************************************)
(* Router properties                                                       *)
(***************************************************************************)

\* a pattern without placeholder
IsStatic(p) == \A i \in 1..Len(p) : p[i] # "{"

\* the placeholder segments of a route pattern, left to right, as indexes into its
\* segments
PlaceholderPositions(route_parts) ==
    LET RECURSIVE From(_)
        From(i) ==
            IF i > Len(route_parts) THEN << >>
            ELSE IF IsPlaceholder(route_parts[i]) THEN <<i>> \o From(i + 1)
            ELSE From(i + 1)
    IN  From(1)

\* what the specification asks of extractParams: each placeholder, under its name or
\* seg{i}, bound to the whole path segment at its position, left to right
ExpectedParams(routePath, path) ==
    LET route_parts == Split(routePath, <<"/">>)
        path_parts  == Split(Split(path, <<"?">>)[1], <<"/">>)
        pos         == PlaceholderPositions(route_parts)
    IN  [k \in 1..Len(pos) |->
            <<SegmentName(route_parts[pos[k]], k - 1), path_parts[pos[k]]>>]

\* C8: for every registered static pattern p, get_handler(p) and get_handler(p + "/")
\* return the handler registered for p (called with the request alone), whatever other
\* routes are registered and in whatever order.
C8_TrailingSlashStatic ==
    lastOp.op = "get" =>
        \A i \in 1..Len(routes) :
            ( /\ IsStatic(routes[i].path)
              /\ lastOp.path \in {routes[i].path, routes[i].path \o <<"/">>} )
            => /\ lastOp.result.found
               /\ lastOp.result.idx = i
               /\ lastOp.result.handler = routes[i].handler
               /\ lastOp.result.kwargs = << >>

\* C9: whenever get_dynamic_segments returns a mapping for the route get_handler
\* selected (so matches_with accepted the path), the mapping binds every placeholder of
\* the pattern, under its name or seg{i}, to the whole path segment at the same
\* position, in left-to-right order.
C9_SegmentsWholeValue ==
    (lastOp.op = "get" /\ lastOp.result.found /\ IsSome(lastOp.result.segments))
    => lastOp.result.segments[1]
         = ExpectedParams(routes[lastOp.result.idx].path, lastOp.path)

PatAX == <<"/", "a", "/", "{", "x", "}">>

PatAY == <<"/", "a", "/", "{", "y", "}">>

\* C10: add_route fails as a duplicate exactly when a registered route's matches_with
\* accepts the pattern string (so /a/{y} after /a/{x} is a duplicate); a rejected
\* registration leaves the table as it was; an accepted one appends the route at the
\* end and keeps the earlier entries.
C10_AddRoute ==
    lastOp.op = "add" =>
        LET before == lastOp.before
            dup    == \E i \in 1..Len(before) : matches_with(before[i].path, lastOp.path)
        IN  /\ lastOp.outcome \in {"duplicate", "invalid", "added"}
            /\ (lastOp.outcome = "duplicate") <=> dup
            /\ lastOp.outcome \in {"duplicate", "invalid"} => routes = before
            /\ lastOp.outcome = "invalid" => ~validate_path(lastOp.path)
            /\ lastOp.outcome = "added" =>
                  /\ validate_path(lastOp.path)
                  /\ Len(routes) = Len(before) + 1
                  /\ SubSeq(routes, 1, Len(before)) = before
                  /\ routes[Len(routes)] = [path |-> lastOp.path, handler |-> lastOp.handler]
            /\ (Len(before) >= 1 /\ before[1].path = PatAX /\ lastOp.path = PatAY)
                  => lastOp.outcome = "duplicate"

\* /a/{y} was offered after /a/{x} and rejected as a duplicate
C10_Witness ==
    /\ lastOp.op = "add"
    /\ Len(lastOp.before) = 1
    /\ lastOp.before[1].path = PatAX
    /\ lastOp.path = PatAY
    /\ lastOp.outcome = "duplicate"
    /\ routes = lastOp.before

(***************************************************************************)
(* Connection properties                                                   *)
(***************************************************************************)

Conns == 1..Len(accepted)

\* the status code of a serialized response: the second word of its status line
WireStatus(wire) == Split(Split(wire, CRLF)[1], <<" ">>)[2]

\* the body of a serialized response: what follows the first blank line
WireBody(wire) == Drop(wire, FindFrom(wire, HeaderEnd, 1) + Len(HeaderEnd))

\* the header lines of a serialized response, as a dict
WireHeaders(wire) ==
    DictFromPairs(HeaderPairs(Split(SubSeq(wire, 1, FindFrom(wire, HeaderEnd, 1) - 1), CRLF)))

\* no worker is handling connection c
NotHeld(c) == \A w \in 1..NumThreads : worker[w].conn # c

\* the worker that took connection c has finished with it
Finished(c) == accepted[c].by # 0 /\ NotHeld(c)

\* the response handle_root gives, on the wire
RootWire == serialize(BuildResponseWithBody(STATUS_200_OK, <<"Hello, World!">>))

\* connection c2 was handled after c1 by the same worker, sent GET / and is finished
LaterRootOnSameWorker(c1, c2) ==
    /\ c1 < c2
    /\ accepted[c1].by # 0
    /\ accepted[c2].by = accepted[c1].by
    /\ accepted[c2].client.stream = GetRoot
    /\ accepted[c2].done

\* a GET / connection is served as usual: one handle_root call, its response sent once
ServedRoot(c) ==
    /\ accepted[c].calls = <<[handler |-> "handle_root", kwargs |-> << >>]>>
    /\ accepted[c].sent = <<RootWire>>
    /\ ~accepted[c].error
    /\ ~accepted[c].open

\* C1: on every path through the connection worker the client socket is closed by the
\* time the worker finishes with the connection.
C1_SocketClosed ==
    \A c \in Conns :
        /\ accepted[c].done => ~accepted[c].open
        /\ Finished(c) => (accepted[c].done /\ ~accepted[c].open)

\* a connection whose sendall raised was finished, by way of the except and finally
\* blocks
C1_Witness ==
    \E c \in Conns :
        /\ accepted[c].done /\ ~accepted[c].open
        /\ accepted[c].error /\ accepted[c].send_failed

\* C2: a handler that raises gives exactly one response on the connection, 500 with an
\* empty body (when the peer is there to take it); the error stops at the dispatcher,
\* the worker is free again, and a later connection on the same worker is served as
\* usual.
C2_HandlerError ==
    \A c \in Conns :
        accepted[c].handler_raised =>
            /\ Len(accepted[c].calls) = 1
            /\ Len(accepted[c].sent) <= 1
            /\ \A i \in 1..Len(accepted[c].sent) :
                  /\ WireStatus(accepted[c].sent[i]) = IntToStr(STATUS_500_INTERNAL_SERVER_ERROR)
                  /\ WireBody(accepted[c].sent[i]) = << >>
                  /\ WireHeaders(accepted[c].sent[i]) = << >>
            /\ (accepted[c].done /\ ~accepted[c].send_failed) =>
                  (Len(accepted[c].sent) = 1 /\ ~accepted[c].error)
            /\ accepted[c].error => accepted[c].send_failed
            /\ accepted[c].done => (NotHeld(c) /\ ~accepted[c].open)
            /\ \A c2 \in Conns : LaterRootOnSameWorker(c, c2) => ServedRoot(c2)

C2_Witness ==
    \E c \in Conns, c2 \in Conns :
        /\ accepted[c].handler_raised
        /\ accepted[c].done
        /\ Len(accepted[c].sent) = 1
        /\ LaterRootOnSameWorker(c, c2)
        /\ ServedRoot(c2)

\* the decoded request of connection c is for a path no registered route matches
Unmatched(c) ==
    /\ IsSome(accepted[c].request)
    /\ \A i \in 1..Len(routes) : ~matches_with(routes[i].path, accepted[c].request[1].path)

\* the request of connection c asks for gzip
AsksGzip(c) ==
    /\ DictHas(accepted[c].request[1].headers, <<"Accept-Encoding">>)
    /\ Contains(DictGet(accepted[c].request[1].headers, <<"Accept-Encoding">>), <<"gzip">>)

\* C3 as stated: for a path that matches no route, whatever the headers, no handler is
\* invoked and the response written has status 404 and an empty body.
C3_NotFoundEmptyBody ==
    \A c \in Conns :
        Unmatched(c) =>
            /\ accepted[c].calls = << >>
            /\ \A i \in 1..Len(accepted[c].sent) :
                  /\ WireStatus(accepted[c].sent[i]) = IntToStr(STATUS_404_NOT_FOUND)
                  /\ WireBody(accepted[c].sent[i]) = << >>

\* C3 amended: for a path that matches no route no handler is invoked and the response
\* written has status 404; its body is empty unless the request's Accept-Encoding lists
\* gzip, and then it is the gzip encoding of the empty body, declared by
\* Content-Encoding: gzip and Content-Length.
C3_NotFound ==
    \A c \in Conns :
        Unmatched(c) =>
            /\ accepted[c].calls = << >>
            /\ Len(accepted[c].sent) <= 1
            /\ (accepted[c].done /\ ~accepted[c].send_failed) => Len(accepted[c].sent) = 1
            /\ \A i \in 1..Len(accepted[c].sent) :
                  LET wire == accepted[c].sent[i]
                  IN  /\ WireStatus(wire) = IntToStr(STATUS_404_NOT_FOUND)
                      /\ IF AsksGzip(c)
                         THEN /\ WireBody(wire) = GzipCompress(<< >>)
                              /\ GzipDecompress(WireBody(wire)) = << >>
                              /\ WireHeaders(wire) =
                                    << <<<<"Content-Encoding">>, <<"gzip">>>>,
                                       <<<<"Content-Length">>, IntToStr(Len(WireBody(wire)))>> >>
                         ELSE /\ WireBody(wire) = << >>
                              /\ WireHeaders(wire) = << >>

\* a request for a missing path that asks for gzip was answered
C3_Witness ==
    \E c \in Conns :
        /\ Unmatched(c)
        /\ AsksGzip(c)
        /\ accepted[c].done
        /\ Len(accepted[c].sent) = 1
        /\ WireBody(accepted[c].sent[1]) # << >>

\* C4: when the peer closes before sending a byte, decode reports no request: no
\* handler is invoked, nothing is written, and the connection goes straight to closed.
C4_NoRequest ==
    \A c \in Conns :
        accepted[c].client.stream = << >> =>
            /\ accepted[c].calls = << >>
            /\ accepted[c].sent = << >>
            /\ accepted[c].request = None
            /\ ~accepted[c].error
            /\ \A w \in 1..NumThreads :
                  worker[w].conn = c => worker[w].pc \in {"read_header", "parse", "close", "finally"}
            /\ accepted[c].done => (accepted[c].no_request /\ ~accepted[c].open)

C4_Witness ==
    \E c \in Conns :
        /\ accepted[c].client.stream = << >>
        /\ accepted[c].done
        /\ accepted[c].no_request
        /\ ~accepted[c].open

\* the request line of a stream does not split into exactly three parts
BadRequestLine(stream) ==
    /\ Len(stream) > 0
    /\ Len(Split(Split(stream, CRLF)[1], <<" ">>)) # 3

\* C5: a request line that does not split into three parts is dropped silently: no
\* handler, no response byte, the failure caught at the connection worker, the socket
\* closed, and later connections served.
C5_MalformedDropped ==
    \A c \in Conns :
        BadRequestLine(accepted[c].client.stream) =>
            /\ accepted[c].calls = << >>
            /\ accepted[c].sent = << >>
            /\ accepted[c].request = None
            /\ accepted[c].done => (accepted[c].error /\ ~accepted[c].open /\ NotHeld(c))
            /\ \A c2 \in Conns : LaterRootOnSameWorker(c, c2) => ServedRoot(c2)

C5_Witness ==
    \E c \in Conns, c2 \in Conns :
        /\ BadRequestLine(accepted[c].client.stream)
        /\ accepted[c].done
        /\ accepted[c].error
        /\ LaterRootOnSameWorker(c, c2)
        /\ ServedRoot(c2)

\* where the header terminator of a stream starts (0: it has none)
TermAt(stream) == FindFrom(stream, HeaderEnd, 1)

\* the header block of a stream, terminator included, parsed
StreamHead(stream) == ParseHeaders(SubSeq(stream, 1, TermAt(stream) + 3))

\* the bytes of a stream after its header terminator
StreamBody(stream) == Drop(stream, TermAt(stream) + 4)

\* a POST with a Content-Length n whose n body bytes are all in the stream
PostWithBody(stream) ==
    /\ TermAt(stream) # 0
    /\ StreamHead(stream).kind = "ok"
    /\ ReadsBody(StreamHead(stream))
    /\ IsInt(DictGet(StreamHead(stream).headers, <<"Content-Length">>))
    /\ Len(StreamBody(stream)) >= StrToInt(DictGet(StreamHead(stream).headers, <<"Content-Length">>))

\* C6: for a POST with Content-Length n whose terminator arrives whole in one read and
\* whose n body bytes are all delivered, the decoded body is exactly those n bytes,
\* whatever the body holds and however it is cut.
C6_BodyExact ==
    \A c \in Conns :
        LET stream == accepted[c].client.stream
        IN  ( /\ IsSome(accepted[c].request)
              /\ accepted[c].term_whole
              /\ PostWithBody(stream) )
            => accepted[c].request[1].body
                 = SubSeq(StreamBody(stream), 1,
                          StrToInt(DictGet(StreamHead(stream).headers, <<"Content-Length">>)))

\* the request read from a stream that arrives in a single read
DecodeWhole(stream) ==
    LET r == HeaderChunk(<< >>, << >>, stream)
    IN  MakeRequest(ParseHeaders(r.header_buff), r.body_buff)

\* C7: when the terminator arrives split across two reads, decode produces the same
\* request as when the same stream arrives with the terminator whole in one read (and
\* it does produce one: the worker is not left waiting for bytes it already has).
C7_SplitTerminatorSameRequest ==
    \A c \in Conns :
        LET stream == accepted[c].client.stream
        IN  (TermAt(stream) # 0 /\ ~accepted[c].term_whole) =>
              /\ IsSome(accepted[c].request) => accepted[c].request[1] = DecodeWhole(stream)
              /\ \A w \in 1..NumThreads :
                    ~( /\ worker[w].conn = c
                       /\ worker[w].pc = "read_body"
                       /\ accepted[c].pos = Len(stream)
                       /\ ~accepted[c].client.closes )

(***************************************************************************)
(* Lookup order                                                            *)
(***************************************************************************)

\* the registered routes whose matches_with accepts the looked-up path
Matching == {i \in 1..Len(routes) : matches_with(routes[i].path, lastOp.path)}

\* C11: get_handler selects the handler of the earliest registered route whose
\* matches_with accepts the path, even when later routes accept it too, and gives the
\* not-found handler only when no registered route accepts it.
C11_FirstMatch ==
    lastOp.op = "get" =>
        /\ lastOp.result.found <=> Matching # {}
        /\ lastOp.result.found =>
              /\ lastOp.result.idx \in Matching
              /\ \A j \in Matching : lastOp.result.idx <= j
              /\ lastOp.result.handler = routes[lastOp.result.idx].handler
        /\ ~lastOp.result.found => lastOp.result.handler = "not_found"

\* a path that two routes with different handlers accept was looked up, and the first
\* one's handler came back
C11_Witness ==
    /\ lastOp.op = "get"
    /\ Matching = {1, 2}
    /\ routes[1].handler # routes[2].handler
    /\ lastOp.result.found
    /\ lastOp.result.idx = 1
    /\ lastOp.result.handler = routes[1].handler

(***************************************************************************)
(* Encoding negotiation                                                    *)
(*                                                                         *)
(* The try block of _handle_request and the serialization that follows it, *)
(* applied to what a handler may return (built with HttpResponseBuilder,   *)
(* with or without a Content-Encoding of its own) and to the               *)
(* Accept-Encoding header a request may carry.                             *)
(***************************************************************************)

\* HttpResponseBuilder.set_header on the response being built
set_header(response, name, value) ==
    [response EXCEPT !.headers = DictSet(response.headers, name, value)]

\* responses a handler may return
EncResponses ==
    {BuildResponse(s) : s \in {STATUS_200_OK, STATUS_404_NOT_FOUND}}
    \cup {BuildResponseWithBody(s, b) :
             s \in {STATUS_200_OK, STATUS_400_BAD_REQUEST},
             b \in {<< >>, <<"Hello, World!">>, <<"a", "b">>}}
    \cup {set_header(r, <<"Content-Encoding">>, e) :
             r \in {BuildResponse(STATUS_200_OK),
                    BuildResponseWithBody(STATUS_200_OK, <<"Hello, World!">>)},
             e \in {<<"gzip">>, <<"br">>}}

\* what a handler call may end in
EncOutcomes == {Raised} \cup {Returned(r) : r \in EncResponses}

\* the Accept-Encoding header of the request: absent, or one of these values
EncAccepts ==
    {None} \cup
    {Some(v) : v \in { << >>,
                       <<"gzip">>,
                       <<"br">>,
                       <<"deflate">>,
                       <<"br", ",", " ", "gzip">>,
                       <<"gzip", ",", "deflate">>,
                       <<" ", "gzip", " ">>,
                       <<"deflate", ",", " ", "br">> }}

\* a GET / request with the given Accept-Encoding header
EncRequest(accept) ==
    MakeRequest([kind |-> "ok", method |-> <<"GET">>, path |-> PathRoot,
                 headers |-> IF IsSome(accept)
                             THEN DictSet(<< >>, <<"Accept-Encoding">>, accept[1])
                             ELSE << >>],
                << >>)

\* lines 336-352 for one handler outcome: negotiation, the 500 of the except block,
\* and the bytes handed to sendall
Negotiate(outcome, accept) ==
    /\ LET request  == EncRequest(accept)
           response == DispatchResponse(request, outcome)
       IN  lastOp' = [op |-> "negotiate", request |-> request, outcome |-> outcome,
                      response |-> response, wire |-> serialize(response)]
    /\ UNCHANGED <<routes, serverVars>>

EncInit ==
    /\ routes = << >>
    /\ lastOp = NoOp
    /\ accepted = << >>
    /\ queue = << >>
    /\ worker = << >>

EncNext == \E outcome \in EncOutcomes, accept \in EncAccepts : Negotiate(outcome, accept)

\* The dispatcher's negotiation step on every handler outcome and Accept-Encoding
EncSpec == EncInit /\ [][EncNext]_vars

\* the handler returned a response, and it declares no Content-Encoding
ReturnedPlain ==
    /\ ~lastOp.outcome.raised
    /\ ~DictHas(lastOp.outcome.response.headers, <<"Content-Encoding">>)

\* the entries of an Accept-Encoding value, spaces around them dropped
AcceptEntries(value) ==
    {Strip(Split(value, <<",">>)[i]) : i \in 1..Len(Split(value, <<",">>))}

\* C12: for a request carrying Accept-Encoding: gzip whose handler returns body B and
\* no Content-Encoding, the response written has Content-Encoding gzip, a body that
\* decompresses to exactly B, and a Content-Length equal to the length of the
\* compressed body sent.
C12_Gzip ==
    ( /\ lastOp.op = "negotiate"
      /\ HeaderGet(lastOp.request.headers, <<"Accept-Encoding">>) = Some(<<"gzip">>)
      /\ ReturnedPlain )
    => /\ WireStatus(lastOp.wire) = IntToStr(lastOp.outcome.response.status_code)
       /\ HeaderGet(WireHeaders(lastOp.wire), <<"Content-Encoding">>) = Some(<<"gzip">>)
       /\ GzipDecompress(WireBody(lastOp.wire)) = lastOp.outcome.response.body
       /\ WireBody(lastOp.wire) # lastOp.outcome.response.body
       /\ HeaderGet(WireHeaders(lastOp.wire), <<"Content-Length">>)
             = Some(IntToStr(Len(WireBody(lastOp.wire))))

\* handle_root's response was compressed for a request with Accept-Encoding: gzip
C12_Witness ==
    /\ lastOp.op = "negotiate"
    /\ HeaderGet(lastOp.request.headers, <<"Accept-Encoding">>) = Some(<<"gzip">>)
    /\ lastOp.outcome = Returned(BuildResponseWithBody(STATUS_200_OK, <<"Hello, World!">>))
    /\ WireBody(lastOp.wire) = GzipCompress(<<"Hello, World!">>)
    /\ HeaderGet(WireHeaders(lastOp.wire), <<"Content-Length">>)
          = Some(IntToStr(Len(GzipCompress(<<"Hello, World!">>))))
    /\ HeaderGet(WireHeaders(lastOp.wire), <<"Content-Length">>)
          # HeaderGet(lastOp.outcome.response.headers, <<"Content-Length">>)

\* C13: the negotiation step leaves the handler's response (status, every header, body)
\* unchanged when the request has no Accept-Encoding, or its Accept-Encoding lists no
\* supported encoding, or the response already declares a Content-Encoding; a
\* handler-set Content-Encoding, its body and its Content-Length are never overridden.
C13_Unchanged ==
    (lastOp.op = "negotiate" /\ ~lastOp.outcome.raised) =>
        LET accept == HeaderGet(lastOp.request.headers, <<"Accept-Encoding">>)
            given  == lastOp.outcome.response
        IN  ( \/ accept = None
              \/ (IsSome(accept) /\ AcceptEntries(accept[1]) \cap CONTENT_ENCODERS = {})
              \/ DictHas(given.headers, <<"Content-Encoding">>) )
            => /\ lastOp.response = given
               /\ lastOp.wire = serialize(given)
               /\ WireBody(lastOp.wire) = given.body
               /\ WireHeaders(lastOp.wire) = given.headers

\* a response the handler declared as br, asked for with Accept-Encoding: gzip, went out
\* as the handler built it
C13_Witness ==
    /\ lastOp.op = "negotiate"
    /\ HeaderGet(lastOp.request.headers, <<"Accept-Encoding">>) = Some(<<"gzip">>)
    /\ ~lastOp.outcome.raised
    /\ HeaderGet(lastOp.outcome.response.headers, <<"Content-Encoding">>) = Some(<<"br">>)
    /\ lastOp.outcome.response.body = <<"Hello, World!">>
    /\ lastOp.response = lastOp.outcome.response
    /\ HeaderGet(WireHeaders(lastOp.wire), <<"Content-Encoding">>) = Some(<<"br">>)
    /\ WireBody(lastOp.wire) = <<"Hello, World!">>

(***************************************************************************)
(* The pool with more connections than threads                             *)
(***************************************************************************)

\* connections accepted in one run of the pool-and-queue specification
PoolConns == 3

\* a POST to "/", which handle_root answers like any other request
PostRoot == ReqLine("POST", PathRoot) \o Hdr("Content-Length", <<"2">>) \o HeaderEnd \o <<"h", "i">>

\* the header block in one piece, then the body in one piece
HeadAndBody(stream) == {FindFrom(stream, HeaderEnd, 1) + 3, Len(stream)}

\* connects and sends nothing, keeping the connection open: recv blocks for good
ClientStaysSilent == Client(<< >>, FALSE, {})

\* a client that blocks its worker for good, one that is served at once, and one whose
\* request takes the body loop and every way out of _handle_connection
PoolClients ==
    { ClientStaysSilent,
      Client(GetRoot, FALSE, Whole(GetRoot)),
      Client(PostRoot, TRUE, HeadAndBody(PostRoot)) }

PoolNext ==
    \/ \E client \in PoolClients : Accept(client, PoolConns)
    \/ \E w \in 1..NumThreads : WorkerStep(w)

\* The server accepting more connections than its pool has threads
PoolSpec == Init /\ [][PoolNext]_vars

\* connection c is in the hands of a worker: being read, dispatched or written
Busy(c) == \E w \in 1..NumThreads : worker[w].conn = c

\* connection c waits in the executor's queue
InQueue(c) == \E i \in 1..Len(queue) : queue[i] = c

\* C14: with a pool of N workers at most N accepted connections are being read,
\* dispatched or written at any moment; each accepted connection is handed to exactly
\* one worker; connections accepted while all N workers are busy wait in the queue;
\* and the acceptor can accept a further connection in every state, whatever the
\* workers are blocked on.
C14_Pool ==
    /\ Cardinality({c \in Conns : Busy(c)}) <= NumThreads
    /\ \A c \in Conns :
          /\ Cardinality({w \in 1..NumThreads : worker[w].conn = c}) <= 1
          /\ Cardinality({i \in 1..Len(queue) : queue[i] = c}) <= 1
          /\ InQueue(c) <=> accepted[c].by = 0
          /\ ~(InQueue(c) /\ Busy(c))
          /\ Busy(c) => worker[accepted[c].by].conn = c
          /\ (accepted[c].by # 0 /\ ~Busy(c)) => accepted[c].done
          /\ accepted[c].done => (accepted[c].by # 0 /\ ~Busy(c))
    /\ Len(accepted) < PoolConns =>
          ENABLED (\E client \in PoolClients : Accept(client, PoolConns))

\* every worker is blocked in recv on a client that stays silent, and a connection
\* accepted besides waits in the queue
C14_Witness ==
    /\ \A w \in 1..NumThreads :
          /\ worker[w].pc = "read_header"
          /\ accepted[worker[w].conn].client = ClientStaysSilent
    /\ Len(accepted) = NumThreads + 1
    /\ queue = <<NumThreads + 1>>
    /\ accepted[NumThreads + 1].by = 0

(***************************************************************************)
(* Order of the steps on one connection                                    *)
(***************************************************************************)

\* C15: within one connection the handler is invoked only after decode has returned
\* the request, at most once; no byte of the response is written before the handler
\* and the encoding step have finished; and nothing is written after the socket is
\* closed.
C15_Ordering ==
    [][\A c \in Conns :
          /\ accepted'[c].request # accepted[c].request =>
                /\ accepted[c].request = None
                /\ accepted[c].calls = << >>
                /\ accepted[c].sent = << >>
          /\ accepted'[c].calls # accepted[c].calls =>
                /\ IsSome(accepted[c].request)
                /\ accepted'[c].request = accepted[c].request
                /\ accepted[c].calls = << >>
                /\ Len(accepted'[c].calls) = 1
                /\ accepted[c].sent = << >>
                /\ accepted'[c].sent = << >>
          /\ accepted'[c].sent # accepted[c].sent =>
                /\ accepted[c].open
                /\ accepted[c].sent = << >>
                /\ IsSome(accepted[c].request)
                /\ accepted'[c].calls = accepted[c].calls
                /\ \E w \in 1..NumThreads :
                      /\ worker[w].conn = c
                      /\ worker[w].pc = "send"
                      /\ IsSome(worker[w].response)
                      /\ accepted'[c].sent = <<serialize(worker[w].response[1])>>
          /\ ~accepted[c].open =>
                /\ ~accepted'[c].open
                /\ accepted'[c].sent = accepted[c].sent
                /\ accepted'[c].calls = accepted[c].calls
    ]_vars

\* a connection went through all the steps: request decoded, one handler call, one
\* response written, socket closed
C15_Witness ==
    \E c \in Conns :
        /\ IsSome(accepted[c].request)
        /\ Len(accepted[c].calls) = 1
        /\ Len(accepted[c].sent) = 1
        /\ ~accepted[c].open
        /\ accepted[c].done

(***************************************************************************)
(* Progress                                                                *)
(***************************************************************************)

\* A pool thread that can take a step eventually takes it: it takes a queued
\* connection, returns from a recv that has bytes or end-of-stream to give, and goes on
\* through send, close, except and finally.  Parsing and dispatching are computations
\* of the thread itself, which it can always carry on with, so weak fairness of Parse
\* and of Dispatch says that the thread does not stay at either for ever.
WorkerFair(w) ==
    /\ WF_vars(TakeWork(w))
    /\ WF_vars(RecvHeader(w))
    /\ WF_vars(RecvBody(w))
    /\ WF_vars(Send(w))
    /\ WF_vars(Close(w))
    /\ WF_vars(Except(w))
    /\ WF_vars(Finally(w))
    /\ []<>(worker[w].pc # "parse")
    /\ []<>(worker[w].pc # "dispatch")

\* One connection served under fair scheduling of the pool threads
LiveSpec == Init /\ [][ConnNext]_vars /\ \A w \in 1..NumThreads : WorkerFair(w)

\* the client of connection c sends a whole well-formed request (header block,
\* terminator and the Content-Length body bytes) and then waits for the response
DeliversRequest(c) ==
    /\ Len(accepted) >= c
    /\ ~accepted[c].client.closes
    /\ TermAt(accepted[c].client.stream) # 0
    /\ StreamHead(accepted[c].client.stream).kind = "ok"
    /\ ReadsBody(StreamHead(accepted[c].client.stream)) =>
          PostWithBody(accepted[c].client.stream)

\* connection c has had its response written and is closed
Served(c) ==
    /\ Len(accepted) >= c
    /\ Len(accepted[c].sent) = 1
    /\ ~accepted[c].open
    /\ accepted[c].done

\* C16: under fair scheduling, a connection whose client delivers all the bytes of its
\* request, cut into reads in any way, and then waits for the response eventually has a
\* response written and is closed; no worker stays blocked in a read for bytes the
\* client has already sent.
C16_EventuallyServed == DeliversRequest(1) ~> Served(1)

(***************************************************************************)
(* Decoded requests                                                        *)
(***************************************************************************)

\* C17: every decoded request whose method is not POST, or which has no Content-Length
\* header, has an empty body, whatever bytes followed the header terminator in the
\* same read.
C17_EmptyBody ==
    \A c \in Conns :
        ( /\ IsSome(accepted[c].request)
          /\ \/ accepted[c].request[1].method # <<"POST">>
             \/ ~DictHas(accepted[c].request[1].headers, <<"Content-Length">>) )
        => accepted[c].request[1].body = << >>

\* a header line split once, at its first ": ", into name and value
SplitOnce(line) ==
    LET k == FindFrom(line, <<":", " ">>, 1)
    IN  <<SubSeq(line, 1, k - 1), Drop(line, k + 2)>>

\* the headers the specification asks for: every line after the request line that
\* holds ": ", split once; a later line of the same name replaces the earlier one
ExpectedHeaders(stream) ==
    LET lines == Split(SubSeq(stream, 1, TermAt(stream) - 1), CRLF)
        RECURSIVE From(_)
        From(i) ==
            IF i > Len(lines) THEN << >>
            ELSE IF Contains(lines[i], <<":", " ">>)
                 THEN <<SplitOnce(lines[i])>> \o From(i + 1)
                 ELSE From(i + 1)
    IN  DictFromPairs(From(2))

\* C18: each header line after the request line is split once, at its first ": ", so a
\* line whose value holds ": " gives that name mapped to the whole remaining value and
\* the request is decoded and dispatched as usual; a line without ": " is ignored; on
\* duplicate names the last line wins.
C18_HeaderSplitOnce ==
    \A c \in Conns :
        ( /\ accepted[c].done
          /\ TermAt(accepted[c].client.stream) # 0
          /\ ~BadRequestLine(accepted[c].client.stream) )
        => /\ IsSome(accepted[c].request)
           /\ accepted[c].request[1].headers = ExpectedHeaders(accepted[c].client.stream)
           /\ accepted[c].error => accepted[c].send_failed
           /\ ~accepted[c].send_failed => Len(accepted[c].sent) = 1

(***************************************************************************)
(* Placeholders                                                            *)
(***************************************************************************)

\* the segments of a request path, its query string dropped
PathSegments(path) == Split(Split(path, <<"?">>)[1], <<"/">>)

\* C19: a placeholder matches a single non-empty segment: for a pattern and a path of
\* equal segment counts, matches_with is true only when every literal segment is equal
\* and every placeholder position holds a non-empty segment (so /a/{x} does not match
\* /a/).
C19_PlaceholderNonEmpty ==
    lastOp.op = "get" =>
        \A i \in 1..Len(routes) :
            LET route_parts == Split(routes[i].path, <<"/">>)
                path_parts  == PathSegments(lastOp.path)
            IN  ( /\ Len(route_parts) = Len(path_parts)
                  /\ matches_with(routes[i].path, lastOp.path) )
                => \A k \in 1..Len(route_parts) :
                      IF IsPlaceholder(route_parts[k])
                      THEN path_parts[k] # << >>
                      ELSE path_parts[k] = route_parts[k]

\* C20: matches_with and get_dynamic_segments agree: when get_handler selects a route
\* whose pattern has a placeholder, the handler is called with a mapping that has an
\* entry for every placeholder of the pattern, never with the request alone.
C20_SegmentsForEveryPlaceholder ==
    ( /\ lastOp.op = "get"
      /\ lastOp.result.found
      /\ PlaceholderPositions(Split(routes[lastOp.result.idx].path, <<"/">>)) # << >> )
    => /\ IsSome(lastOp.result.segments)
       /\ lastOp.result.kwargs # << >>
       /\ Len(lastOp.result.kwargs)
             = Len(PlaceholderPositions(Split(routes[lastOp.result.idx].path, <<"/">>)))

=============================================================================
